---------------------------- MODULE Spec2Model ----------------------------
(***************************************************************************)
(* A model of ocr_dir.py: load_config, search_dir, confirm_pdf_list,       *)
(* process_pdf and main.  The state is what the program reads and writes:  *)
(* the configuration files, the directory tree, the operator's answer, the *)
(* log, standard output, and the effects of process_pdf on the file system *)
(* and on the container runtime.                                           *)
(***************************************************************************)
EXTENDS Integers, Sequences, FiniteSets, TLC

(***************************************************************************)
(* Bounds of the model.                                                    *)
(***************************************************************************)
MaxFiles == 3       \* files in the directory tree of a whole run
MaxScanFiles == 3   \* files in the directory tree given to search_dir alone
MaxOpts == 2        \* options in a profile given to process_pdf alone
MaxRespLen == 3     \* characters in an answer given to confirm_pdf_list alone

(***************************************************************************)
(* Text.  Python strings are TLA+ strings; str(int) is computed digit by   *)
(* digit and str.lower() character by character.                           *)
(***************************************************************************)
Digits == <<"0", "1", "2", "3", "4", "5", "6", "7", "8", "9">>

RECURSIVE NatToStr(_)
NatToStr(n) ==
  IF n < 10 THEN Digits[n + 1]
  ELSE NatToStr(n \div 10) \o Digits[(n % 10) + 1]

\* str(value) for an int value
IntToStr(n) == IF n < 0 THEN "-" \o NatToStr(0 - n) ELSE NatToStr(n)

\* str.lower() on one character
LowerChar(c) ==
  CASE c = "Y" -> "y"
    [] c = "E" -> "e"
    [] c = "S" -> "s"
    [] c = "N" -> "n"
    [] c = "O" -> "o"
    [] OTHER -> c

\* str.lower() on a string held as its sequence of characters
Lower(cs) == [i \in 1..Len(cs) |-> LowerChar(cs[i])]

\* the string a sequence of characters spells
RECURSIVE Chars2Str(_)
Chars2Str(cs) == IF cs = <<>> THEN "" ELSE cs[1] \o Chars2Str(Tail(cs))

\* os.path.join(a, b) for a relative b
PathJoin(a, b) == a \o "/" \o b

(***************************************************************************)
(* Values of a YAML mapping: strings, booleans, integers and null.         *)
(***************************************************************************)
StrV(s) == [t |-> "str", s |-> s, b |-> FALSE, n |-> 0]
BoolV(b) == [t |-> "bool", s |-> "", b |-> b, n |-> 0]
IntV(n) == [t |-> "int", s |-> "", b |-> FALSE, n |-> n]
NullV == [t |-> "null", s |-> "", b |-> FALSE, n |-> 0]

Opt(k, v) == [key |-> k, value |-> v]


\* truthiness of a value, as "if value" tests it
Truthy(v) ==
  CASE v.t = "bool" -> v.b
    [] v.t = "int" -> v.n # 0
    [] v.t = "str" -> v.s # ""
    [] OTHER -> FALSE

\* str(value)
PyStr(v) ==
  CASE v.t = "int" -> IntToStr(v.n)
    [] v.t = "str" -> v.s
    [] v.t = "bool" -> (IF v.b THEN "True" ELSE "False")
    [] OTHER -> "None"

\* repr of a list of strings, as an f-string renders it
RECURSIVE ReprItems(_)
ReprItems(xs) ==
  IF xs = <<>> THEN ""
  ELSE IF Len(xs) = 1 THEN "'" \o xs[1] \o "'"
  ELSE "'" \o xs[1] \o "', " \o ReprItems(Tail(xs))

ReprList(xs) == "[" \o ReprItems(xs) \o "]"

(***************************************************************************)
(* load_config.  A location holds no file, a file the user may not open, a *)
(* malformed file or a YAML document.                                      *)
(***************************************************************************)
ScriptDir == "/app"

NoProfiles == [p \in {} |-> <<>>]

\* a document that is a mapping: the top-level keys it holds and, for the keys
\* the program reads, their values ("", no profile and no option for a key it
\* does not hold)
Doc(input_dir, profiles, logging_section) ==
  [mapping |-> TRUE, keys |-> {"input_dir", "profiles", "logging"},
   input_dir |-> input_dir, profiles |-> profiles, logging |-> logging_section]

\* the document without one of its top-level keys
Without(doc, key) ==
  [mapping |-> doc.mapping, keys |-> doc.keys \ {key},
   input_dir |-> IF key = "input_dir" THEN "" ELSE doc.input_dir,
   profiles |-> IF key = "profiles" THEN NoProfiles ELSE doc.profiles,
   logging |-> IF key = "logging" THEN <<>> ELSE doc.logging]

\* None: what yaml.safe_load returns for an empty file, and config before it is set
NoDoc ==
  [mapping |-> FALSE, keys |-> {}, input_dir |-> "", profiles |-> NoProfiles,
   logging |-> <<>>]

Absent == [kind |-> "absent", doc |-> NoDoc]
Malformed == [kind |-> "malformed", doc |-> NoDoc]
\* a file that is there and that the user may not open
Unreadable == [kind |-> "unreadable", doc |-> NoDoc]
Yaml(doc) == [kind |-> "yaml", doc |-> doc]

\* os.path.isfile(path) on the configuration locations
isfile(fs, path) == fs[path].kind # "absent"

\* resolve_config without the second look under the program's directory
resolve_config_no_fallback(fs, config_file) ==
  IF isfile(fs, config_file) THEN config_file ELSE ""

\* the path load_config settles on, "" when neither location holds a file
resolve_config(fs, config_file) ==
  IF isfile(fs, config_file) THEN config_file
  ELSE IF isfile(fs, PathJoin(ScriptDir, config_file))
       THEN PathJoin(ScriptDir, config_file)
       ELSE ""

\* str(e) of the yaml.YAMLError safe_load raises on the malformed file, whose
\* text is that of the repository's test, "invalid: yaml: content": the
\* scanner's problem and the mark of the second colon in the file opened as path
yaml_error_str(path) ==
  "mapping values are not allowed here\n  in \"" \o path \o "\", line 1, column 14"

\* load_config: the document returned or the exception raised, and what it
\* prints.  The PermissionError of open() is caught by neither except clause:
\* it leaves load_config with nothing printed
load_config(fs, config_file) ==
  LET path == resolve_config(fs, config_file) IN
  IF path = ""
  THEN [exc |-> "FileNotFoundError", config |-> NoDoc,
        out |-> <<"Error: Configuration file '"
                  \o PathJoin(ScriptDir, config_file) \o "' not found.">>]
  ELSE IF fs[path].kind = "unreadable"
  THEN [exc |-> "PermissionError", config |-> NoDoc, out |-> <<>>]
  ELSE IF fs[path].kind = "malformed"
  THEN [exc |-> "YAMLError", config |-> NoDoc,
        out |-> <<"Error parsing YAML configuration: " \o yaml_error_str(path)>>]
  ELSE [exc |-> "none", config |-> fs[path].doc, out |-> <<>>]

(***************************************************************************)
(* The log: one record per call of logger.info/warning/error.              *)
(***************************************************************************)
Rec(level, msg) == [level |-> level, msg |-> msg]
Info(msg) == Rec("INFO", msg)
Warning(msg) == Rec("WARNING", msg)
Error(msg) == Rec("ERROR", msg)

(***************************************************************************)
(* setup_logging.  The log of the model holds every record handed to the   *)
(* logger, whatever level the handlers let through.                        *)
(***************************************************************************)
\* the keys of the logging section that lines 53-56 read
logging_keys == {"level", "log_file", "print_level"}

\* the keys a mapping holds
KeysOf(opts) == {opts[i].key : i \in 1..Len(opts)}

\* the exception open() raises for a way of failing to open a path
open_exc(failure) ==
  CASE failure \in {"log_missing", "root_missing"} -> "FileNotFoundError"
    [] failure \in {"log_denied", "root_denied"} -> "PermissionError"
    [] failure = "log_isdir" -> "IsADirectoryError"
    [] failure = "root_notdir" -> "NotADirectoryError"

\* setup_logging: the exception raised and the records logged.  Subscripting
\* None is a TypeError, a missing section or key a KeyError;
\* logging.FileHandler opens the log file (opened: "ok" or how it fails)
\* before anything is logged
setup_logging(cfg, opened) ==
  IF ~cfg.mapping
  THEN [exc |-> "TypeError", log |-> <<>>]
  ELSE IF "logging" \notin cfg.keys \/ ~(logging_keys \subseteq KeysOf(cfg.logging))
  THEN [exc |-> "KeyError", log |-> <<>>]
  ELSE IF opened # "ok"
  THEN [exc |-> open_exc(opened), log |-> <<>>]
  ELSE [exc |-> "none", log |-> <<Info("Logging initialized")>>]

(***************************************************************************)
(* search_dir.  A tree is the set of subdirectories under the root and the *)
(* files under it in the order rglob visits them.                          *)
(***************************************************************************)
File(dir, stem, ext) == [dir |-> dir, stem |-> stem, ext |-> ext]

\* the directory holding a file
ParentOf(directory, f) ==
  IF f.dir = "" THEN directory ELSE PathJoin(directory, f.dir)

\* the file's path under the root
PathOf(directory, f) == PathJoin(ParentOf(directory, f), f.stem \o "." \o f.ext)

\* any(Path(directory).iterdir()): the root holds at least one entry
has_entries(tree) == tree.dirs # {} \/ tree.files # <<>>

\* rglob('*.pdf') matches on the extension, case-sensitively
matches_pdf(f) == f.ext = "pdf"

\* the record search_dir builds for one file
descriptor(directory, f) ==
  [name |-> f.stem,
   ocr_name |-> f.stem \o "_ocr",
   sidecar |-> f.stem \o ".txt",
   path |-> PathOf(directory, f),
   ocr_path |-> PathJoin(ParentOf(directory, f), f.stem \o "_ocr" \o ".pdf")]

\* pdf_files[file_name] = d on a dict held in insertion order
dict_set(pdf_files, d) ==
  IF \E i \in 1..Len(pdf_files) : pdf_files[i].name = d.name
  THEN [i \in 1..Len(pdf_files) |->
          IF pdf_files[i].name = d.name THEN d ELSE pdf_files[i]]
  ELSE Append(pdf_files, d)

\* the for loop of search_dir over the files rglob yields
RECURSIVE scan_loop(_, _, _)
scan_loop(directory, files, acc) ==
  IF files = <<>> THEN acc
  ELSE LET f == Head(files) IN
       IF matches_pdf(f)
       THEN scan_loop(directory, Tail(files),
                      [pdf_files |-> dict_set(acc.pdf_files, descriptor(directory, f)),
                       log |-> Append(acc.log, Info("Found PDF: " \o PathOf(directory, f)))])
       ELSE scan_loop(directory, Tail(files), acc)

\* search_dir: the mapping returned or the exception raised, and the records
\* logged.  Path(directory).iterdir() raises when the root cannot be listed
\* (root: "ok" or how listing it fails), and nothing catches it
search_dir(directory, tree, root) ==
  LET begin == <<Info("Begin searching directory: " \o directory)>> IN
  IF root # "ok"
  THEN [exc |-> open_exc(root), pdf_files |-> <<>>, log |-> begin]
  ELSE IF ~has_entries(tree)
  THEN [exc |-> "none", pdf_files |-> <<>>,
        log |-> Append(begin, Warning("Directory '" \o directory \o "' is empty."))]
  ELSE LET r == scan_loop(directory, tree.files, [pdf_files |-> <<>>, log |-> begin])
       IN [exc |-> "none", pdf_files |-> r.pdf_files, log |-> r.log]

(***************************************************************************)
(* confirm_pdf_list: the branch taken on one answer.                       *)
(***************************************************************************)
\* response.lower() in ('yes', 'y')
is_yes(response) == Lower(response) \in {<<"y", "e", "s">>, <<"y">>}

\* response.lower() in ('no', 'n')
is_no(response) == Lower(response) \in {<<"n", "o">>, <<"n">>}

\* the lines confirm_pdf_list prints before it prompts: enumerate over the dict's keys
RECURSIVE listing(_, _)
listing(pdf_list, i) ==
  IF i > Len(pdf_list) THEN <<>>
  ELSE <<IntToStr(i - 1) \o ": " \o pdf_list[i].name>> \o listing(pdf_list, i + 1)

(***************************************************************************)
(* process_pdf: the command line.                                          *)
(***************************************************************************)
uid == 1000
gid == 1000

\* Path('data').parent.resolve(): the current working directory
working_dir == "/work"

\* the keys of ocrmypdf_args
ocrmypdf_keys ==
  {"language", "output_type", "force_ocr", "deskew", "clean", "clean_final",
   "rotate_pages", "rotate_pages_threshold", "remove_background", "oversample",
   "remove_vectors", "jobs", "pdf_renderer"}

\* ocrmypdf_args[key](value)
ocrmypdf_args(key, value) ==
  CASE key = "language" -> <<"-l", value.s>>
    [] key = "output_type" -> <<"--output-type", value.s>>
    [] key = "force_ocr" -> IF Truthy(value) THEN <<"--force-ocr">> ELSE <<>>
    [] key = "deskew" -> IF Truthy(value) THEN <<"--deskew">> ELSE <<>>
    [] key = "clean" -> IF Truthy(value) THEN <<"--clean">> ELSE <<>>
    [] key = "clean_final" -> IF Truthy(value) THEN <<"--clean-final">> ELSE <<>>
    [] key = "rotate_pages" -> IF Truthy(value) THEN <<"--rotate-pages">> ELSE <<>>
    [] key = "rotate_pages_threshold" -> <<"--rotate-pages-threshold", PyStr(value)>>
    [] key = "remove_background" ->
         IF Truthy(value) THEN <<"--remove-background">> ELSE <<>>
    [] key = "oversample" -> <<"--oversample", PyStr(value)>>
    [] key = "remove_vectors" -> IF Truthy(value) THEN <<"--remove-vectors">> ELSE <<>>
    [] key = "jobs" -> IF value.n > 0 THEN <<"-j", PyStr(value)>> ELSE <<>>
    [] key = "pdf_renderer" -> <<"--pdf-renderer", value.s>>

\* the base Docker command
base_docker_cmd ==
  <<"docker", "run", "--rm", "-i", "--user",
    IntToStr(uid) \o ":" \o IntToStr(gid),
    "--workdir", "/data", "-v", working_dir \o ":/data",
    "jbarlow83/ocrmypdf-alpine">>

\* option_tokens without the test "value is not None"
option_tokens_keeps_null(o) ==
  IF o.key \in ocrmypdf_keys
  THEN ocrmypdf_args(o.key, o.value)
  ELSE <<>>

\* the tokens one option of the profile adds
option_tokens(o) ==
  IF o.key \in ocrmypdf_keys /\ o.value.t # "null"
  THEN ocrmypdf_args(o.key, o.value)
  ELSE <<>>

\* the for loop over ocr_config.items()
RECURSIVE extend_args(_)
extend_args(ocr_config) ==
  IF ocr_config = <<>> THEN <<>>
  ELSE option_tokens(Head(ocr_config)) \o extend_args(Tail(ocr_config))

\* the argument list handed to subprocess.run
docker_cmd(ocr_config) == base_docker_cmd \o extend_args(ocr_config) \o <<"-", "-">>

\* caught without the clause for FileNotFoundError
caught_process_only(e) == e \in {"CalledProcessError"}

\* the except clauses of the guarded block of process_pdf
caught(e) == e \in {"FileNotFoundError", "CalledProcessError"}

\* handler_msg without the captured standard error
handler_msg_no_stderr(e, file_path, stderr) ==
  IF e = "FileNotFoundError"
  THEN "Input file not found: " \o file_path
  ELSE "OCR process failed for " \o file_path

\* the message the except clause for e logs
handler_msg(e, file_path, stderr) ==
  IF e = "FileNotFoundError"
  THEN "Input file not found: " \o file_path
  ELSE "OCR process failed for " \o file_path \o ": " \o stderr

\* the base names of the model in the order Python's str comparison gives them
StemOrder == <<"a", "b", "c", "notes">>

\* a < b on two base names
str_lt(a, b) ==
  \E i, j \in 1..Len(StemOrder) : i < j /\ StemOrder[i] = a /\ StemOrder[j] = b

\* one key put in its place among keys already sorted
RECURSIVE insert_key(_, _)
insert_key(k, ks) ==
  IF ks = <<>> THEN <<k>>
  ELSE IF str_lt(k, Head(ks)) THEN <<k>> \o ks
  ELSE <<Head(ks)>> \o insert_key(k, Tail(ks))

\* sorted(mapping.keys()): yaml.dump sorts a mapping's keys (sort_keys=True)
RECURSIVE sorted_keys(_)
sorted_keys(pdf_list) ==
  IF pdf_list = <<>> THEN <<>>
  ELSE insert_key(Head(pdf_list).name, sorted_keys(Tail(pdf_list)))

RECURSIVE key_lines(_)
key_lines(ks) ==
  IF ks = <<>> THEN "" ELSE Head(ks) \o ":\n" \o key_lines(Tail(ks))

\* yaml.dump(pdf_list), abridged to the top-level keys, which it writes sorted
dump_keys(pdf_list) == key_lines(sorted_keys(pdf_list))

yaml_dump(pdf_list) == IF pdf_list = <<>> THEN "{}\n" ELSE dump_keys(pdf_list)

(***************************************************************************)
(* The state of a run.                                                     *)
(***************************************************************************)
VARIABLES
  pc,         \* where the program is
  exc,        \* the exception that ended the run, "none" otherwise
  frame,      \* the function that exception was raised in, "none" otherwise
  argv,       \* the parsed command line: [config, profile]
  fs,         \* what the two configuration locations hold
  tree,       \* the directory tree under the scan root
  stdin,      \* the lines the operator has still to type
  hazards,    \* the failures the file system and the container runtime can show
  config,     \* the mapping load_config returned
  pdf_list,   \* the mapping search_dir returned, in insertion order
  prompts,    \* how many times input() was called
  response,   \* the line input() returned last
  confirmed,  \* what confirm_pdf_list returned: "none", "yes" or "no"
  idx,        \* the position of main's for loop in pdf_list
  cur,        \* the locals of the running process_pdf
  inflight,   \* external processes started and not yet returned
  log,        \* the records logged
  stdout,     \* the lines printed
  calls,      \* one record per invocation of process_pdf
  runs,       \* one record per subprocess.run
  created,    \* one record per destination opened for writing
  chmods      \* one record per os.chmod that went through

vars == <<pc, exc, frame, argv, fs, tree, stdin, hazards, config, pdf_list, prompts,
          response, confirmed, idx, cur, inflight, log, stdout, calls, runs, created, chmods>>

inputs == <<argv, fs, tree, hazards>>

NoCur == [docker_cmd |-> <<>>, file_path |-> "", ocr_path |-> ""]

AllHazards ==
  {"log_missing", "log_isdir", "log_denied", "root_missing", "root_denied",
   "root_notdir", "input_missing", "input_denied", "output_missing", "output_denied",
   "no_docker", "docker_denied", "exit_nonzero", "chmod_missing", "chmod_denied"}

\* what the external process can return: its exit code and its standard error
Exits ==
  {[code |-> 0, stderr |-> ""], [code |-> 0, stderr |-> "Scanning contents"],
   [code |-> 1, stderr |-> "OCR failed"], [code |-> 2, stderr |-> ""]}

(***************************************************************************)
(* main, lines 276-286: load the configuration, set up logging, scan.      *)
(***************************************************************************)
MainLoadConfig ==
  /\ pc = "load"
  /\ LET r == load_config(fs, argv.config) IN
     /\ stdout' = stdout \o r.out
     /\ config' = r.config
     /\ exc' = r.exc
     /\ frame' = IF r.exc = "none" THEN frame ELSE "load_config"
     /\ pc' = IF r.exc = "none" THEN "logging" ELSE "crashed"
  /\ UNCHANGED <<inputs, stdin, pdf_list, prompts, response, confirmed, idx, cur, inflight,
                 log, calls, runs, created, chmods>>

MainSetupLogging ==
  /\ pc = "logging"
  /\ \E opened \in {"ok"} \cup ({"log_missing", "log_isdir", "log_denied"} \cap hazards) :
       LET r == setup_logging(config, opened) IN
       /\ log' = log \o r.log
       /\ exc' = r.exc
       /\ frame' = IF r.exc = "none" THEN frame ELSE "setup_logging"
       /\ pc' = IF r.exc = "none" THEN "scan" ELSE "crashed"
  /\ UNCHANGED <<inputs, stdin, config, pdf_list, prompts, response, confirmed, idx, cur,
                 inflight, stdout, calls, runs, created, chmods>>

\* lines 282-286; config['input_dir'] is a KeyError on a document without the key
MainSearch ==
  /\ pc = "scan"
  /\ IF "input_dir" \notin config.keys
     THEN /\ exc' = "KeyError"
          /\ frame' = "main"
          /\ pc' = "crashed"
          /\ UNCHANGED <<pdf_list, log>>
     ELSE \E root \in {"ok"} \cup ({"root_missing", "root_denied", "root_notdir"}
                                    \cap hazards) :
          LET start_path == PathJoin(ScriptDir, config.input_dir)
              r == search_dir(start_path, tree, root)
              lg == Append(log, Info("Searching directory: " \o start_path)) \o r.log
          IN IF r.exc # "none"
             THEN /\ exc' = r.exc
                  /\ frame' = "search_dir"
                  /\ pc' = "crashed"
                  /\ log' = lg
                  /\ pdf_list' = pdf_list
             ELSE /\ pdf_list' = r.pdf_files
                  /\ log' = lg \o <<Info(yaml_dump(r.pdf_files))>>
                  /\ pc' = "confirm"
                  /\ UNCHANGED <<exc, frame>>
  /\ UNCHANGED <<inputs, stdin, config, prompts, response, confirmed, idx, cur, inflight,
                 stdout, calls, runs, created, chmods>>

(***************************************************************************)
(* confirm_pdf_list.                                                       *)
(***************************************************************************)
\* lines 160-163: print the listing
ConfirmBegin ==
  /\ pc = "confirm"
  /\ stdout' = (Append(stdout, "The following PDF files will be OCR'd:")
                  \o listing(pdf_list, 1))
  /\ log' = Append(log, Info("Confirming PDF list"))
  /\ pc' = "prompt"
  /\ UNCHANGED <<exc, frame, inputs, stdin, config, pdf_list, prompts, response, confirmed, idx, cur,
                 inflight, calls, runs, created, chmods>>

\* confirm_body with an invalid answer sent round the loop again
confirm_body_retry(resp) ==
  IF is_yes(resp)
  THEN [returns |-> TRUE, value |-> "yes", out |-> <<>>,
        log |-> <<Info("Received " \o Chars2Str(resp) \o " from user to continue")>>]
  ELSE IF is_no(resp)
  THEN [returns |-> TRUE, value |-> "no", out |-> <<>>,
        log |-> <<Info("Received " \o Chars2Str(resp) \o " from user to cancel")>>]
  ELSE [returns |-> FALSE, value |-> "no",
        out |-> <<"Invalid response. Please enter 'yes' or 'no'.">>,
        log |-> <<Error("Received invalid user response to confirmation prompt")>>]

\* one pass of the body of "while True" on one answer: whether it returns, the
\* value returned, and what it logs and prints
confirm_body(resp) ==
  IF is_yes(resp)
  THEN [returns |-> TRUE, value |-> "yes", out |-> <<>>,
        log |-> <<Info("Received " \o Chars2Str(resp) \o " from user to continue")>>]
  ELSE IF is_no(resp)
  THEN [returns |-> TRUE, value |-> "no", out |-> <<>>,
        log |-> <<Info("Received " \o Chars2Str(resp) \o " from user to cancel")>>]
  ELSE [returns |-> TRUE, value |-> "no",
        out |-> <<"Invalid response. Please enter 'yes' or 'no'.">>,
        log |-> <<Error("Received invalid user response to confirmation prompt")>>]

\* lines 165-176: prompt, read one line, branch; on a standard input at its end
\* input() prints the prompt and raises EOFError, which nothing catches
ConfirmPrompt ==
  /\ pc = "prompt"
  /\ IF stdin = <<>>
     THEN /\ stdout' = Append(stdout, "Continue? (y/n): ")
          /\ exc' = "EOFError"
          /\ frame' = "confirm_pdf_list"
          /\ pc' = "crashed"
          /\ UNCHANGED <<stdin, response, log, confirmed>>
     ELSE LET r == confirm_body(Head(stdin)) IN
          /\ stdout' = (Append(stdout, "Continue? (y/n): ") \o r.out)
          /\ log' = log \o r.log
          /\ confirmed' = IF r.returns THEN r.value ELSE confirmed
          /\ pc' = IF r.returns THEN "branch" ELSE "prompt"
          /\ stdin' = Tail(stdin)
          /\ response' = Head(stdin)
          /\ UNCHANGED <<exc, frame>>
  /\ prompts' = prompts + 1
  /\ UNCHANGED <<inputs, config, pdf_list, idx, cur, inflight, calls, runs,
                 created, chmods>>

(***************************************************************************)
(* main, lines 289-297: the branch on the answer and the for loop.         *)
(***************************************************************************)
\* proceeds with the function tested instead of its result
proceeds_always(answer) == TRUE

\* the test of "if confirm_pdf_list(pdf_list, logger)"
proceeds(answer) == answer = "yes"

MainBranch ==
  /\ pc = "branch"
  /\ IF proceeds(confirmed)
     THEN /\ log' = Append(log, Info("User confirmed PDF list"))
          /\ pc' = "for"
     ELSE /\ log' = Append(log, Info("User did not confirm PDF list"))
          /\ pc' = "done"
  /\ idx' = 1
  /\ UNCHANGED <<exc, frame, inputs, stdin, config, pdf_list, prompts, response, confirmed, cur,
                 inflight, stdout, calls, runs, created, chmods>>

\* the position of the for loop after one more iteration
next_idx(i) == i + 1

\* lines 293-295: take the next descriptor and call process_pdf, or finish
MainFor ==
  /\ pc = "for"
  /\ IF idx <= Len(pdf_list)
     THEN /\ log' = Append(log, Info("Processing PDF: " \o pdf_list[idx].name))
          /\ pc' = "call"
     ELSE /\ log' = log
          /\ pc' = "done"
  /\ UNCHANGED <<exc, frame, inputs, stdin, config, pdf_list, prompts, response, confirmed, idx, cur,
                 inflight, stdout, calls, runs, created, chmods>>

(***************************************************************************)
(* process_pdf.                                                            *)
(***************************************************************************)
\* the record of the invocation that is starting
NewCall(pdf) ==
  [pdf |-> pdf, profile |-> argv.profile, status |-> "running", exc |-> "none",
   input |-> "unknown", exit |-> -1, stderr |-> "",
   first |-> Len(log) + 1, last |-> 0]

\* how the guarded block ends: normally (e = "none") or with exception e, after
\* logging lg and with the invocation's record c
Leave(e, stderr, lg, c) ==
  LET k == Len(calls)
      escapes == e # "none" /\ ~caught(e)
      lg2 == IF e # "none" /\ caught(e)
             THEN Append(lg, Error(handler_msg(e, cur.file_path, stderr)))
             ELSE lg
  IN /\ log' = lg2
     /\ calls' = [calls EXCEPT ![k] =
                    [c EXCEPT !.status = IF escapes THEN "raised" ELSE "returned",
                              !.exc = e,
                              !.last = Len(lg2)]]
     /\ pc' = IF escapes THEN "crashed" ELSE "for"
     /\ exc' = IF escapes THEN e ELSE exc
     /\ frame' = IF escapes THEN "process_pdf" ELSE frame
     /\ idx' = IF escapes THEN idx ELSE next_idx(idx)
     /\ cur' = NoCur

\* lookup_profile with an empty profile standing in for a missing one
lookup_profile_default(cfg, name) ==
  IF "profiles" \in cfg.keys /\ name \in DOMAIN cfg.profiles
  THEN [found |-> TRUE, ocr_config |-> cfg.profiles[name]]
  ELSE [found |-> TRUE, ocr_config |-> <<>>]

\* lines 191-195: config['profiles'][profile], or the KeyError caught
lookup_profile(cfg, name) ==
  IF "profiles" \in cfg.keys /\ name \in DOMAIN cfg.profiles
  THEN [found |-> TRUE, ocr_config |-> cfg.profiles[name]]
  ELSE [found |-> FALSE, ocr_config |-> <<>>]

\* lines 191-245: look the profile up, build the command
ProcessPdfEnter ==
  /\ pc = "call"
  /\ LET pdf == pdf_list[idx]
         c == NewCall(pdf)
         l == lookup_profile(config, argv.profile)
     IN IF ~l.found
        THEN LET lg == Append(log, Error("Configuration profile '" \o argv.profile
                                           \o "' not found."))
             IN /\ log' = lg
                /\ calls' = Append(calls, [c EXCEPT !.status = "returned",
                                                    !.exc = "KeyError",
                                                    !.last = Len(lg)])
                /\ pc' = "for"
                /\ idx' = next_idx(idx)
                /\ cur' = NoCur
        ELSE LET cmd == docker_cmd(l.ocr_config) IN
             /\ log' = (Append(log, Info("Working directory: " \o working_dir))
                          \o <<Info("Docker command: " \o ReprList(cmd))>>)
             /\ calls' = Append(calls, c)
             /\ cur' = [docker_cmd |-> cmd, file_path |-> pdf.path,
                        ocr_path |-> pdf.ocr_path]
             /\ pc' = "open_in"
             /\ idx' = idx
  /\ UNCHANGED <<exc, frame, inputs, stdin, config, pdf_list, prompts, response, confirmed,
                 inflight, stdout, runs, created, chmods>>

\* line 249: open(file_path, 'rb')
OpenInput ==
  /\ pc = "open_in"
  /\ \E s \in {"ok"} \cup ({"input_missing", "input_denied"} \cap hazards) :
       LET k == Len(calls)
           c == [calls[k] EXCEPT !.input = s]
       IN CASE s = "ok" ->
                 /\ calls' = [calls EXCEPT ![k] = c]
                 /\ pc' = "open_out"
                 /\ UNCHANGED <<exc, frame, idx, cur, log>>
            [] s = "input_missing" -> Leave("FileNotFoundError", "", log, c)
            [] s = "input_denied" -> Leave("PermissionError", "", log, c)
  /\ UNCHANGED <<inputs, stdin, config, pdf_list, prompts, response, confirmed, inflight,
                 stdout, runs, created, chmods>>

\* line 250: open(ocr_path, 'wb'), which creates or truncates the destination,
\* raises FileNotFoundError when the destination's directory does not exist
\* and PermissionError when the destination may not be written
OpenOutput ==
  /\ pc = "open_out"
  /\ \E s \in {"ok"} \cup ({"output_missing", "output_denied"} \cap hazards) :
       CASE s = "ok" ->
              /\ created' = Append(created, [call |-> Len(calls), path |-> cur.ocr_path])
              /\ pc' = "run"
              /\ UNCHANGED <<exc, frame, idx, cur, log, calls>>
         [] s = "output_missing" ->
              /\ created' = created
              /\ Leave("FileNotFoundError", "", log, calls[Len(calls)])
         [] s = "output_denied" ->
              /\ created' = created
              /\ Leave("PermissionError", "", log, calls[Len(calls)])
  /\ UNCHANGED <<inputs, stdin, config, pdf_list, prompts, response, confirmed, inflight,
                 stdout, runs, chmods>>

\* line 252: subprocess.run starts the container runtime; it raises
\* FileNotFoundError when no docker is on PATH and PermissionError when the
\* docker on PATH may not be executed
RunLaunch ==
  /\ pc = "run"
  /\ \E s \in {"ok"} \cup ({"no_docker", "docker_denied"} \cap hazards) :
       /\ runs' = Append(runs, [call |-> Len(calls), args |-> cur.docker_cmd,
                                started |-> (s = "ok")])
       /\ CASE s = "ok" ->
                 /\ inflight' = inflight + 1
                 /\ pc' = "wait"
                 /\ UNCHANGED <<exc, frame, idx, cur, log, calls>>
            [] s = "no_docker" ->
                 /\ inflight' = inflight
                 /\ Leave("FileNotFoundError", "", log, calls[Len(calls)])
            [] s = "docker_denied" ->
                 /\ inflight' = inflight
                 /\ Leave("PermissionError", "", log, calls[Len(calls)])
  /\ UNCHANGED <<inputs, stdin, config, pdf_list, prompts, response, confirmed, stdout,
                 created, chmods>>

\* lines 252-261: subprocess.run returns once the process has exited
RunWait ==
  /\ pc = "wait"
  /\ \E x \in Exits :
       /\ x.code = 0 \/ "exit_nonzero" \in hazards
       /\ LET k == Len(calls)
              c == [calls[k] EXCEPT !.exit = x.code, !.stderr = x.stderr]
          IN IF x.code = 0
             THEN /\ log' = Append(log, Info(x.stderr))
                  /\ calls' = [calls EXCEPT ![k] = c]
                  /\ pc' = "chmod"
                  /\ UNCHANGED <<exc, frame, idx, cur>>
             ELSE Leave("CalledProcessError", x.stderr, log, c)
  /\ inflight' = inflight - 1
  /\ UNCHANGED <<inputs, stdin, config, pdf_list, prompts, response, confirmed, stdout, runs,
                 created, chmods>>

\* how the two calls of os.chmod can end: the number that went through and the
\* exception of the one that did not (a file that is gone, a file of another user)
chmod_outcomes(hz) ==
  {[n |-> 2, e |-> "none"]}
    \cup {[n |-> n, e |-> "FileNotFoundError"] : n \in {m \in {0, 1} : "chmod_missing" \in hz}}
    \cup {[n |-> n, e |-> "PermissionError"] : n \in {m \in {0, 1} : "chmod_denied" \in hz}}

\* lines 262-263: os.chmod(file_path, 0o664), then os.chmod(ocr_path, 0o664)
Chmod ==
  /\ pc = "chmod"
  /\ \E o \in chmod_outcomes(hazards) :
       LET k == Len(calls)
           done == SubSeq(<<[call |-> k, path |-> cur.file_path],
                            [call |-> k, path |-> cur.ocr_path]>>, 1, o.n)
       IN /\ chmods' = chmods \o done
          /\ Leave(o.e, "", log, calls[k])
  /\ UNCHANGED <<inputs, stdin, config, pdf_list, prompts, response, confirmed, inflight,
                 stdout, runs, created>>

(***************************************************************************)
(* The inputs of a run.                                                    *)
(***************************************************************************)
ConfigFile == "config.yaml"

\* the profile of the repository's tests
TestProfile == <<Opt("output_type", StrV("pdf"))>>

\* a logging section with the three keys setup_logging reads
LoggingSection ==
  <<Opt("level", StrV("info")), Opt("log_file", StrV("ocr.log")),
    Opt("print_level", StrV("warning"))>>

\* a document that holds what main reads, with the profile of the tests
DocL == Doc("in", [p \in {"default"} |-> TestProfile], LoggingSection)

\* a document without the logging section
DocA == Without(DocL, "logging")

\* a logging section without print_level
DocP == Doc("in", [p \in {"default"} |-> TestProfile], SubSeq(LoggingSection, 1, 2))

\* a document without input_dir
DocN == Without(DocL, "input_dir")

DocB ==
  Doc("docs",
     [p \in {"default", "fast"} |->
        IF p = "default"
        THEN <<Opt("language", StrV("eng")), Opt("deskew", BoolV(TRUE)),
               Opt("jobs", IntV(12)), Opt("title", StrV("x")), Opt("clean", NullV)>>
        ELSE <<Opt("jobs", IntV(0)), Opt("force_ocr", BoolV(FALSE)),
               Opt("oversample", IntV(300))>>],
      LoggingSection)

\* what the two configuration locations can hold
ConfigStores ==
  {[p \in {ConfigFile, PathJoin(ScriptDir, ConfigFile)} |->
      IF p = ConfigFile THEN g ELSE s] :
     g \in {Absent, Malformed, Unreadable, Yaml(NoDoc), Yaml(DocA), Yaml(DocP),
             Yaml(DocN), Yaml(DocL)},
     s \in {Absent, Malformed, Unreadable, Yaml(DocB)}}

\* sequences over U of at most n elements
Seqs(U, n) == UNION {[1..k -> U] : k \in 0..n}

\* rglob visits a directory's own files before those of its subdirectories
Rank(dir) == CASE dir = "" -> 0 [] dir = "sub" -> 1 [] OTHER -> 2

DirSets == {{}, {"sub"}, {"sub", "sub/deep"}}

\* the trees of at most n files over the files U
Trees(U, n) ==
  {t \in [dirs : DirSets, files : Seqs(U, n)] :
     /\ \A i, j \in 1..Len(t.files) :
          i < j => /\ t.files[i] # t.files[j]
                   /\ Rank(t.files[i].dir) <= Rank(t.files[j].dir)
     /\ \A i \in 1..Len(t.files) : t.files[i].dir = "" \/ t.files[i].dir \in t.dirs}

MainFiles ==
  {File("", "a", "pdf"), File("", "b", "pdf"), File("sub", "a", "pdf"),
   File("sub", "c", "pdf"), File("", "notes", "txt")}

ScanFiles ==
  {File(d, s, e) : d \in {"", "sub", "sub/deep"}, s \in {"a", "b"},
                   e \in {"pdf", "PDF", "txt"}}

\* the answers an operator gives in a whole run
MainAnswers ==
  {<<"y">>, <<"Y", "E", "S">>, <<"n">>, <<"N", "o">>, <<"x">>, <<>>}

AnswerChars == {"y", "Y", "e", "E", "s", "S", "n", "N", "o", "O", " ", "x"}

\* an operator who is asked again answers yes
Typed(answers) == {<<a, <<"y">>>> : a \in answers}

\* a standard input that is at its end: input() has no line to read
Closed == <<>>

\* the state all runs start from, but for the inputs
Fresh ==
  /\ exc = "none"
  /\ frame = "none"
  /\ prompts = 0
  /\ response = <<>>
  /\ confirmed = "none"
  /\ idx = 1
  /\ cur = NoCur
  /\ inflight = 0
  /\ log = <<>>
  /\ stdout = <<>>
  /\ calls = <<>>
  /\ runs = <<>>
  /\ created = <<>>
  /\ chmods = <<>>

(***************************************************************************)
(* Spec: a whole run of main.                                              *)
(***************************************************************************)
Init ==
  /\ pc = "load"
  /\ argv \in [config : {ConfigFile}, profile : {"default", "fast"}]
  /\ fs \in ConfigStores
  /\ tree \in Trees(MainFiles, MaxFiles)
  /\ stdin \in Typed(MainAnswers) \cup {Closed}
  /\ hazards = AllHazards
  /\ config = NoDoc
  /\ pdf_list = <<>>
  /\ Fresh

ProcessPdf ==
  \/ ProcessPdfEnter
  \/ OpenInput
  \/ OpenOutput
  \/ RunLaunch
  \/ RunWait
  \/ Chmod

Next ==
  \/ MainLoadConfig
  \/ MainSetupLogging
  \/ MainSearch
  \/ ConfirmBegin
  \/ ConfirmPrompt
  \/ MainBranch
  \/ MainFor
  \/ ProcessPdf

Spec == Init /\ [][Next]_vars

(***************************************************************************)
(* SpecScan: search_dir on its own, over every tree of the bound.          *)
(***************************************************************************)
InitScan ==
  /\ pc = "scan"
  /\ argv = [config |-> ConfigFile, profile |-> "default"]
  /\ fs \in {[p \in {ConfigFile, PathJoin(ScriptDir, ConfigFile)} |-> Yaml(DocA)]}
  /\ tree \in Trees(ScanFiles, MaxScanFiles)
  /\ stdin \in Typed({<<"y">>})
  /\ hazards = {"root_missing", "root_denied", "root_notdir"}
  /\ config = DocA
  /\ pdf_list = <<>>
  /\ Fresh

SpecScan == InitScan /\ [][MainSearch]_vars

(***************************************************************************)
(* SpecConfirm: confirm_pdf_list on its own, over every answer of the      *)
(* bound.                                                                  *)
(***************************************************************************)
InitConfirm ==
  /\ pc = "confirm"
  /\ argv = [config |-> ConfigFile, profile |-> "default"]
  /\ fs \in {[p \in {ConfigFile, PathJoin(ScriptDir, ConfigFile)} |-> Yaml(DocA)]}
  /\ tree = [dirs |-> {}, files |-> <<File("", "a", "pdf"), File("", "b", "pdf")>>]
  /\ stdin \in Typed(Seqs(AnswerChars, MaxRespLen)) \cup {Closed}
  /\ hazards = {}
  /\ config = DocA
  /\ pdf_list = search_dir(PathJoin(ScriptDir, DocA.input_dir), tree, "ok").pdf_files
  /\ Fresh

NextConfirm ==
  \/ ConfirmBegin
  \/ ConfirmPrompt

SpecConfirm == InitConfirm /\ [][NextConfirm]_vars

(***************************************************************************)
(* SpecCmd: process_pdf on its own on one existing file, over every        *)
(* profile of the bound, with a file system and a container runtime that   *)
(* do not fail.                                                            *)
(***************************************************************************)
FlagKeys ==
  {"force_ocr", "deskew", "clean", "clean_final", "rotate_pages",
   "remove_background", "remove_vectors"}

\* the options a profile is drawn from: every key of the table with values of
\* its type and null, and keys the table does not hold
OptChoices ==
  {Opt("language", v) : v \in {StrV("eng"), NullV}}
    \cup {Opt("output_type", v) : v \in {StrV("pdf"), NullV}}
    \cup {Opt("pdf_renderer", v) : v \in {StrV("sandwich"), NullV}}
    \cup {Opt(k, v) : k \in FlagKeys, v \in {BoolV(TRUE), BoolV(FALSE), NullV}}
    \cup {Opt("rotate_pages_threshold", v) : v \in {IntV(14), NullV}}
    \cup {Opt("oversample", v) : v \in {IntV(300), IntV(0), NullV}}
    \cup {Opt("jobs", v) : v \in {IntV(-1), IntV(0), IntV(1), IntV(12), NullV}}
    \cup {Opt("title", StrV("x")), Opt("sidecar", BoolV(TRUE))}

\* a YAML mapping holds a key once
Profiles(n) ==
  {p \in Seqs(OptChoices, n) :
     \A i, j \in 1..Len(p) : i < j => p[i].key # p[j].key}

InitCmd ==
  /\ pc = "call"
  /\ argv = [config |-> ConfigFile, profile |-> "default"]
  /\ fs \in {[p \in {ConfigFile, PathJoin(ScriptDir, ConfigFile)} |-> Absent]}
  /\ tree = [dirs |-> {}, files |-> <<File("", "a", "pdf")>>]
  /\ stdin = <<>>
  /\ hazards = {}
  /\ config \in {Without(Without(Doc("", [p \in {"default"} |-> o], <<>>), "logging"),
                           "input_dir") :
                   o \in Profiles(MaxOpts)}
  /\ pdf_list = search_dir(PathJoin(ScriptDir, "in"), tree, "ok").pdf_files
  /\ Fresh

SpecCmd == InitCmd /\ [][ProcessPdf]_vars

(***************************************************************************)
(* What one invocation of process_pdf did, read off the run's records.     *)
(***************************************************************************)
\* the records invocation k logged
LogOf(k) ==
  SubSeq(log, calls[k].first, IF calls[k].last = 0 THEN Len(log) ELSE calls[k].last)

IsError(r) == r.level = "ERROR"

\* the errors invocation k logged
ErrorsOf(k) == SelectSeq(LogOf(k), IsError)

RunsOf(k) == {i \in 1..Len(runs) : runs[i].call = k}
CreatedOf(k) == {i \in 1..Len(created) : created[i].call = k}
ChmodsOf(k) == {i \in 1..Len(chmods) : chmods[i].call = k}

\* the batch goes on after invocation k: the next descriptor is up or was taken
GoesOnAfter(k) ==
  k < Len(pdf_list) => \/ Len(calls) > k
                       \/ (pc \in {"for", "call"} /\ idx = k + 1)

(***************************************************************************)
(* C1.  process_pdf never raises past its boundary: whatever step fails    *)
(* (profile lookup, opening the source, opening the destination, running   *)
(* the external process, changing permissions), the failure is caught and  *)
(* logged and process_pdf returns normally.                                *)
(***************************************************************************)
C1_NeverRaises ==
  \A k \in 1..Len(calls) : calls[k].status # "raised"

\* at most one external process is in flight, and none between two files
C2_Sequential ==
  /\ inflight \in {0, 1}
  /\ inflight = 1 => pc = "wait"
  /\ Len(runs) <= Len(calls)

\* no descriptor is taken twice, and the descriptors are taken in order
C2_NoRetry ==
  /\ Len(calls) <= Len(pdf_list)
  /\ \A k \in 1..Len(calls) : calls[k].pdf = pdf_list[k] /\ Cardinality(RunsOf(k)) <= 1

(***************************************************************************)
(* C2.  After the operator confirms, main invokes process_pdf exactly once *)
(* for every descriptor of the discovered set, one after the other, with   *)
(* at most one external process in flight, and never retries a file: once  *)
(* the run has ended after a yes, every descriptor was taken exactly once. *)
(***************************************************************************)
C2_EveryDescriptorOnce ==
  /\ C2_Sequential
  /\ C2_NoRetry
  /\ (confirmed = "yes" /\ pc \in {"done", "crashed"}) =>
       \A i \in 1..Len(pdf_list) :
         Cardinality({k \in 1..Len(calls) : calls[k].pdf = pdf_list[i]}) = 1

\* 'y' and 'yes' in every letter case
YesForms ==
  {<<a>> : a \in {"y", "Y"}}
    \cup {<<a, b, c>> : a \in {"y", "Y"}, b \in {"e", "E"}, c \in {"s", "S"}}

(***************************************************************************)
(* C3.  confirm_pdf_list prompts exactly once and returns True for an      *)
(* answer that is 'y' or 'yes' in any letter case, and False for every     *)
(* other answer, 'n'/'no' or invalid, without asking again.                *)
(***************************************************************************)
C3_PromptsOnce ==
  /\ prompts <= 1
  /\ pc = "prompt" => prompts = 0 /\ confirmed = "none"
  /\ pc = "branch" =>
       /\ prompts = 1
       /\ confirmed = IF response \in YesForms THEN "yes" ELSE "no"

\* an invalid answer was given, and the function returned False on it
C3_Witness ==
  /\ pc = "branch"
  /\ response = <<"y", "e">>
  /\ confirmed = "no"
  /\ prompts = 1

(***************************************************************************)
(* C4.  If the operator does not confirm, the run ends with no side effect *)
(* beyond logging: process_pdf is never invoked, no external process is    *)
(* launched, no destination is created or truncated, no permission is      *)
(* changed, whatever the size of the discovered set.                       *)
(***************************************************************************)
C4_NoSideEffects ==
  confirmed = "no" =>
    /\ pc \in {"branch", "done"}
    /\ calls = <<>>
    /\ runs = <<>>
    /\ created = <<>>
    /\ chmods = <<>>
    /\ inflight = 0

\* a run over three discovered files that ended on an invalid answer
C4_Witness ==
  /\ pc = "done"
  /\ confirmed = "no"
  /\ response = <<"x">>
  /\ Len(pdf_list) = 3

\* the positions of the '.pdf' files of the tree
PdfFiles == {i \in 1..Len(tree.files) : tree.files[i].ext = "pdf"}

IsWarning(r) == r.level = "WARNING"

(***************************************************************************)
(* C5.  search_dir returns exactly one descriptor per matching file: the   *)
(* empty mapping and a warning for a root with no entry, and N descriptors *)
(* for a root with N '.pdf' files anywhere in its subtree, each with       *)
(* name = base, ocr_name = base + '_ocr' and sidecar = base + '.txt'.      *)
(***************************************************************************)
C5_OnePerMatchingFile ==
  pc = "confirm" =>
    /\ Len(pdf_list) = Cardinality(PdfFiles)
    /\ \A i \in PdfFiles :
         \E j \in 1..Len(pdf_list) :
           /\ pdf_list[j].name = tree.files[i].stem
           /\ pdf_list[j].ocr_name = tree.files[i].stem \o "_ocr"
           /\ pdf_list[j].sidecar = tree.files[i].stem \o ".txt"
    /\ (tree.dirs = {} /\ tree.files = <<>>) =>
         pdf_list = <<>> /\ Len(SelectSeq(log, IsWarning)) = 1

FixedPrefix ==
  <<"docker", "run", "--rm", "-i", "--user", "1000:1000", "--workdir", "/data",
    "-v", working_dir \o ":/data", "jbarlow83/ocrmypdf-alpine">>

\* the decimal strings of the numbers the profiles hold
Decimal(n) ==
  CASE n = 0 -> "0" [] n = 1 -> "1" [] n = 12 -> "12" [] n = 14 -> "14"
    [] n = 300 -> "300" [] n = -1 -> "-1"

FlagOf(key) ==
  CASE key = "force_ocr" -> "--force-ocr"
    [] key = "deskew" -> "--deskew"
    [] key = "clean" -> "--clean"
    [] key = "clean_final" -> "--clean-final"
    [] key = "rotate_pages" -> "--rotate-pages"
    [] key = "remove_background" -> "--remove-background"
    [] key = "remove_vectors" -> "--remove-vectors"

\* the tokens the table gives one option
TableTokens(o) ==
  IF o.value.t = "null" THEN <<>>
  ELSE CASE o.key \in FlagKeys -> IF o.value.b THEN <<FlagOf(o.key)>> ELSE <<>>
         [] o.key = "language" -> <<"-l", o.value.s>>
         [] o.key = "output_type" -> <<"--output-type", o.value.s>>
         [] o.key = "pdf_renderer" -> <<"--pdf-renderer", o.value.s>>
         [] o.key = "rotate_pages_threshold" ->
              <<"--rotate-pages-threshold", Decimal(o.value.n)>>
         [] o.key = "oversample" -> <<"--oversample", Decimal(o.value.n)>>
         [] o.key = "jobs" ->
              IF o.value.n > 0 THEN <<"-j", Decimal(o.value.n)>> ELSE <<>>
         [] OTHER -> <<>>

RECURSIVE TableArgs(_)
TableArgs(profile) ==
  IF profile = <<>> THEN <<>>
  ELSE TableTokens(Head(profile)) \o TableArgs(Tail(profile))

(***************************************************************************)
(* C6.  The argument list handed to the external process is the fixed      *)
(* prefix, then the tokens of the profile's options in the profile's order *)
(* per the option-to-flag table, then '-', '-': unmapped and null-valued   *)
(* keys add nothing, a boolean option adds its flag only when true, jobs   *)
(* adds '-j' and its value only when the value is positive, and numbers    *)
(* are passed as decimal strings.  The profile {output_type: pdf} gives    *)
(* the prefix, '--output-type', 'pdf', '-', '-'.                           *)
(***************************************************************************)
C6_CommandLine ==
  /\ pc \in {"wait", "chmod"} => Len(runs) = 1
  /\ \A i \in 1..Len(runs) :
       LET profile == config.profiles[argv.profile] IN
       /\ runs[i].args = (FixedPrefix \o TableArgs(profile)) \o <<"-", "-">>
       /\ profile = TestProfile =>
            runs[i].args = FixedPrefix \o <<"--output-type", "pdf", "-", "-">>

\* a process was started for a profile with a positive jobs and a null option
C6_Witness ==
  /\ Len(runs) = 1
  /\ runs[1].started
  /\ config.profiles[argv.profile] = <<Opt("jobs", IntV(12)), Opt("language", NullV)>>
  /\ Len(runs[1].args) = 15

(***************************************************************************)
(* C7.  When the requested profile is absent from the configuration,       *)
(* process_pdf logs exactly one error naming the profile and does nothing  *)
(* else for the file: no external process, neither file opened, no         *)
(* permission changed.                                                     *)
(***************************************************************************)
C7_MissingProfile ==
  \A k \in 1..Len(calls) :
    calls[k].profile \notin DOMAIN config.profiles =>
      /\ calls[k].status = "returned"
      /\ ErrorsOf(k) =
           <<Error("Configuration profile '" \o calls[k].profile \o "' not found.")>>
      /\ calls[k].input = "unknown"
      /\ RunsOf(k) = {}
      /\ CreatedOf(k) = {}
      /\ ChmodsOf(k) = {}

\* two files were taken with a profile the configuration does not hold
C7_Witness ==
  /\ Len(calls) = 2
  /\ argv.profile \notin DOMAIN config.profiles
  /\ calls[2].status = "returned"

(***************************************************************************)
(* C8.  When the source file does not exist (and the profile does),        *)
(* process_pdf logs exactly one error, 'Input file not found: <path>',     *)
(* writes no destination, launches no external process and returns         *)
(* normally.                                                               *)
(***************************************************************************)
C8_MissingSource ==
  \A k \in 1..Len(calls) :
    calls[k].input = "input_missing" =>
      /\ calls[k].status = "returned"
      /\ ErrorsOf(k) = <<Error("Input file not found: " \o calls[k].pdf.path)>>
      /\ CreatedOf(k) = {}
      /\ RunsOf(k) = {}
      /\ ChmodsOf(k) = {}

\* the source of the first file was missing and the second file was taken
C8_Witness ==
  /\ Len(calls) = 2
  /\ calls[1].input = "input_missing"
  /\ calls[1].status = "returned"

(***************************************************************************)
(* C9.  When the external process exits non-zero, process_pdf logs exactly *)
(* one error, 'OCR process failed for <path>: <captured stderr>', changes  *)
(* no permission, and returns normally, so that the batch goes on with the *)
(* next file.                                                              *)
(***************************************************************************)
C9_ProcessFailed ==
  \A k \in 1..Len(calls) :
    calls[k].exit > 0 =>
      /\ calls[k].status = "returned"
      /\ ErrorsOf(k) =
           <<Error((("OCR process failed for " \o calls[k].pdf.path) \o ": ")
                     \o calls[k].stderr)>>
      /\ ChmodsOf(k) = {}
      /\ GoesOnAfter(k)

\* the process failed on the first file with text on its standard error, and
\* the second file was taken
C9_Witness ==
  /\ Len(calls) = 2
  /\ calls[1].exit = 1
  /\ calls[1].stderr = "OCR failed"
  /\ calls[1].status = "returned"

\* the location load_config settles on: the path as given when a file is
\* there, else the same path under the program's directory
Chosen ==
  IF fs[ConfigFile].kind # "absent" THEN fs[ConfigFile]
  ELSE fs[PathJoin(ScriptDir, ConfigFile)]

\* the run ended on an exception raised in load_config
LoadFailed == pc = "crashed" /\ frame = "load_config"

\* a failure of load_config ends the run: no logging, no scan, no prompt, no
\* file taken
LoadFailureIsFatal ==
  LoadFailed =>
    /\ log = <<>>
    /\ pdf_list = <<>>
    /\ prompts = 0
    /\ calls = <<>>
    /\ runs = <<>>
    /\ created = <<>>

(***************************************************************************)
(* C10.  load_config returns the parsed document when a file exists at the *)
(* path as given or else at that path under the program's directory; with  *)
(* no file at either it raises a not-found error, with a malformed file a  *)
(* parse error, and either ends the run: no scan, no prompt, no file taken.*)
(***************************************************************************)
C10_LoadConfig ==
  pc # "load" =>
    /\ Chosen.kind = "absent" => LoadFailed /\ exc = "FileNotFoundError"
    /\ Chosen.kind = "malformed" => LoadFailed /\ exc = "YAMLError"
    /\ Chosen.kind \notin {"absent", "malformed"} =>
         ~LoadFailed /\ config = Chosen.doc
    /\ LoadFailureIsFatal

(***************************************************************************)
(* C10, amended.  load_config returns the parsed document when the file at *)
(* the path as given, or else at that path under the program's directory,  *)
(* can be opened and is well-formed; with no file at either it raises a    *)
(* not-found error, with a malformed file a parse error, with a file that  *)
(* cannot be opened the PermissionError of open(); each of the three ends  *)
(* the run: no logging, no scan, no prompt, no file taken.                 *)
(***************************************************************************)
C10_LoadConfigReadable ==
  pc # "load" =>
    /\ Chosen.kind = "absent" => LoadFailed /\ exc = "FileNotFoundError"
    /\ Chosen.kind = "malformed" => LoadFailed /\ exc = "YAMLError"
    /\ Chosen.kind = "unreadable" => LoadFailed /\ exc = "PermissionError"
    /\ Chosen.kind = "yaml" => ~LoadFailed /\ config = Chosen.doc
    /\ LoadFailureIsFatal

\* a run that ended in load_config on a file under the program's directory
\* that could not be opened
C10_Witness ==
  /\ LoadFailed
  /\ exc = "PermissionError"
  /\ fs[ConfigFile].kind = "absent"
  /\ fs[PathJoin(ScriptDir, ConfigFile)].kind = "unreadable"
  /\ tree.files # <<>>

\* invocation k logged 'Input file not found: <path>' for its source path
LoggedNotFound(k) ==
  \E i \in 1..Len(ErrorsOf(k)) :
    ErrorsOf(k)[i] = Error("Input file not found: " \o calls[k].pdf.path)

(***************************************************************************)
(* C11.  process_pdf logs 'Input file not found: <path>' only when the     *)
(* source file at <path> does not exist: whenever that error is logged,    *)
(* the source was missing, the destination was not created or truncated    *)
(* and no attempt was made to launch the external process (no other        *)
(* not-found condition of the guarded block, such as a missing container   *)
(* runtime, is reported as a missing input file).                          *)
(***************************************************************************)
C11_OnlyWhenSourceMissing ==
  \A k \in 1..Len(calls) :
    LoggedNotFound(k) =>
      /\ calls[k].input = "input_missing"
      /\ CreatedOf(k) = {}
      /\ RunsOf(k) = {}

=============================================================================
